---- MODULE Spec2Model ----
(***************************************************************************)
(* GMMRegressor (src/cwlm/gmm_regressor.py): a Gaussian mixture over the   *)
(* inputs combined with one weighted ridge regression per component.       *)
(*                                                                         *)
(* Numbers.  Responsibilities are fixed-point: the integer r stands for    *)
(* the float r / RespScale.  Prediction targets carry the same scale.      *)
(* Quotients (mixture weights, precisions) are kept as exact fractions     *)
(* [num, den]; den = 0 is numpy's inf/nan result of a division by zero.    *)
(* An ndarray is [shape, a]: its shape and its elements in C order.        *)
(***************************************************************************)
EXTENDS Integers, Sequences, FiniteSets, TLC

\* ---------------------------------------------------------------- bounds
RespScale == 2
MaxCoef == 1

SampleCounts == {1, 2}
FeatureDims == {1, 2}
TaskCounts == {1, 2}
CoefVals == 0..MaxCoef
Callers == {"c1", "c2"}

\* Python's None
None == "None"

\* ------------------------------------------------------------- ndarrays
RECURSIVE Prod(_)
Prod(s) == IF s = <<>> THEN 1 ELSE Head(s) * Prod(Tail(s))

RECURSIVE SumTo(_, _)
SumTo(f, n) == IF n = 0 THEN 0 ELSE f[n] + SumTo(f, n - 1)

\* the function f over 1..n as an explicit tuple
List(f) == f \o <<>>

NdArray(shape, a) == [shape |-> shape, a |-> List(a)]

ndim(A) == Len(A.shape)

At2(A, i, j) == A.a[(i - 1) * A.shape[2] + j]

At3(A, i, j, k) == A.a[((i - 1) * A.shape[2] + (j - 1)) * A.shape[3] + k]

squeeze(A) == NdArray(SelectSeq(A.shape, LAMBDA s : s # 1), A.a)

newaxis0(A) == NdArray(<<1>> \o A.shape, A.a)

\* row-wise argmax, ties broken by the lowest index (np.argmax), 0-based
argmax(R) ==
    List([i \in 1..R.shape[1] |->
        (CHOOSE k \in 1..R.shape[2] :
            /\ \A l \in 1..R.shape[2] : At2(R, i, l) <= At2(R, i, k)
            /\ \A l \in 1..(k - 1) : At2(R, i, l) < At2(R, i, k)) - 1])

\* ------------------------------------------------------------ fractions
Frac(n, d) == [num |-> n, den |-> d]

FracEq(p, q) ==
    IF p.den = 0 \/ q.den = 0
    THEN p.den = 0 /\ q.den = 0
    ELSE p.num * q.den = q.num * p.den

\* --------------------------------------------------------------- inputs
\* n-by-d feature matrix: row i holds i - 1 in every column
MkX(n, d) == NdArray(<<n, d>>, [p \in 1..(n * d) |-> (p - 1) \div d])

\* n-by-t target matrix: y[i, j] = (i - 1) * j
MkY2(n, t) ==
    NdArray(<<n, t>>, [p \in 1..(n * t) |-> ((p - 1) \div t) * (((p - 1) % t) + 1)])

\* length-n target vector
MkY1(n) == NdArray(<<n>>, [p \in 1..n |-> p - 1])

XInputs == {MkX(n, d) : n \in SampleCounts, d \in FeatureDims}

\* a single task is given as a vector, several tasks as a matrix
YInputs ==
    {IF t = 1 THEN MkY1(n) ELSE MkY2(n, t) : n \in SampleCounts, t \in TaskCounts}

EmptyArray == NdArray(<<0>>, <<>>)

\* what a call hands back to its caller: an exception, None, an ndarray or a float
Raise(e) == [kind |-> "raise", exc |-> e, val |-> EmptyArray]
ReturnNone == [kind |-> "None", exc |-> "", val |-> EmptyArray]
ReturnArray(A) == [kind |-> "ndarray", exc |-> "", val |-> A]
ReturnFloat(q) == [kind |-> "float", exc |-> "", val |-> q]

\* ------------------------------------------- sklearn.mixture.GaussianMixture
\* The mixture model is an external collaborator.  A fitted model keeps one mean
\* per component: the components settle on the first K training rows, and EM's
\* outcome em is the order in which they do (the labelling of the components).
Row(X, i) == List([c \in 1..X.shape[2] |-> At2(X, i, c)])

SqDist(x, m) == SumTo([c \in 1..Len(x) |-> (x[c] - m[c]) * (x[c] - m[c])], Len(x))

EMOutcomes(K) ==
    {em \in [1..K -> 1..K] : \A a, b \in 1..K : em[a] = em[b] => a = b}

GMM(n_components, n_init, random_state) ==
    [n_components |-> n_components, n_init |-> n_init,
     random_state |-> random_state, covariance_type |-> "full",
     means_ |-> <<>>, weights_ |-> <<>>]

\* posterior of row x: the components nearest to x share the unit mass, the
\* remainder of an uneven split going to the lowest index
Posterior(means, x) ==
    LET K == Len(means)
        dmin == CHOOSE v \in {SqDist(x, means[k]) : k \in 1..K} :
                    \A k \in 1..K : v <= SqDist(x, means[k])
        near == {k \in 1..K : SqDist(x, means[k]) = dmin}
        first == CHOOSE k \in near : \A l \in near : k <= l
        share == RespScale \div Cardinality(near)
    IN  List([k \in 1..K |->
            IF k \notin near THEN 0
            ELSE IF k = first THEN RespScale - share * (Cardinality(near) - 1)
            ELSE share])

predict_proba(gmm, X) ==
    LET n == X.shape[1]
        K == gmm.n_components
    IN  NdArray(<<n, K>>,
                [p \in 1..(n * K) |->
                    Posterior(gmm.means_, Row(X, ((p - 1) \div K) + 1))[((p - 1) % K) + 1]])

GMMfit(gmm, X, em) ==
    LET n == X.shape[1]
        K == gmm.n_components
        means == List([k \in 1..K |-> Row(X, em[k])])
        R == predict_proba([gmm EXCEPT !.means_ = means], X)
    IN  [gmm EXCEPT !.means_ = means,
                    !.weights_ = List([k \in 1..K |->
                        Frac(SumTo([i \in 1..n |-> At2(R, i, k)], n), n * RespScale)])]

\* ------------------------------------------------ sklearn.linear_model.Ridge
\* The solver is an external collaborator.  Its slope is the input c (the same
\* for every feature, task and component); the intercept is the weighted mean of the
\* residual target, as Ridge computes it, rounded down.  Weights that are all
\* zero are all equal to the eps floor of line 43.
RidgeFit(X, y, sample_weight, alpha, c) ==
    LET n == X.shape[1]
        d == X.shape[2]
        t == y.shape[2]
        sw == IF SumTo(sample_weight, n) = 0 THEN List([i \in 1..n |-> 1]) ELSE sample_weight
        rowsum == List([i \in 1..n |-> SumTo(Row(X, i), d)])
    IN  [intercept_ |-> List([j \in 1..t |->
            SumTo([i \in 1..n |-> sw[i] * (At2(y, i, j) - c * rowsum[i])], n)
                \div SumTo(sw, n)]),
         coef_ |-> List([j \in 1..t |-> List([f \in 1..d |-> c])])]

\* -------------------------------------------------------- module functions
SumErr(resp_k, err, n, t) ==
    SumTo([i \in 1..n |-> SumTo([j \in 1..t |-> resp_k[i] * err[i][j]], t)], n)

_estimate_regression_params_k(X, y, resp_k, alpha, weight_k, c) ==
    LET n == X.shape[1]
        d == X.shape[2]
        t == y.shape[2]
        solver == RidgeFit(X, y, resp_k, alpha, c)
        reg_weights_k ==
            List([j \in 1..t |-> <<solver.intercept_[j]>> \o solver.coef_[j]])
        means == List([i \in 1..n |-> List([j \in 1..t |->
                    reg_weights_k[j][1]
                        + SumTo([f \in 1..d |-> At2(X, i, f) * reg_weights_k[j][f + 1]], d)])])
        err == List([i \in 1..n |-> List([j \in 1..t |->
                    (At2(y, i, j) - means[i][j]) * (At2(y, i, j) - means[i][j])])])
    IN  [reg_weights_k |-> reg_weights_k,
         reg_precisions_k |->
            Frac(n * weight_k.num * RespScale, weight_k.den * SumErr(resp_k, err, n, t))]

\* ---------------------------------------------------------- GMMRegressor
\* An instance is its attribute values plus attrs, the names assigned so far;
\* reading a name outside attrs is an AttributeError.
__init__(n_components, alpha, n_init, covariance_type, verbose, random_state) ==
    [attrs |-> {"n_components", "alpha", "covariance_type", "n_init", "verbose",
                "random_state"},
     n_components |-> n_components, alpha |-> alpha,
     covariance_type |-> covariance_type, n_init |-> n_init,
     verbose |-> verbose, random_state |-> random_state,
     is_fitted_ |-> FALSE, n_tasks_ |-> 0, n_input_dims_ |-> 0,
     resp_tr_ |-> EmptyArray, labels_tr_ |-> <<>>,
     reg_weights_ |-> EmptyArray, reg_precisions_ |-> EmptyArray,
     gmm_ |-> GMM(0, 0, None),
     resp_tst_ |-> EmptyArray, labels_tst_ |-> <<>>]

\* the name sys is bound nowhere in the module (lines 7-11 import no sys), so
\* evaluating sys.exit raises NameError after the print calls
_check_data(X, y) ==
    LET y2 == IF ndim(y) = 1 THEN NdArray(<<y.shape[1], 1>>, y.a) ELSE y
        n_x == X.shape[1]
        n_y == y2.shape[1]
    IN  [exc |-> IF n_x = n_y THEN "" ELSE "NameError",
         t |-> y2.shape[2], n |-> n_x, d |-> X.shape[2], X |-> X, y |-> y2]

NoLocals ==
    [X |-> EmptyArray, y |-> EmptyArray, t |-> 0, d |-> 0, resp_tr |-> EmptyArray, labels_tr |-> <<>>,
     reg_weights |-> EmptyArray, reg_precisions |-> EmptyArray, gmm |-> GMM(0, 0, None)]

\* lines 164-179: the locals of fit when the loop over the components is done
FitLocals(self, chk, em, c) ==
    LET K == self.n_components
        t == chk.t
        d == chk.d
        n == chk.n
        gmm == GMMfit(GMM(self.n_components, self.n_init, self.random_state), chk.X, em)
        resp_tr == predict_proba(gmm, chk.X)
        par == List([k \in 1..K |->
                  _estimate_regression_params_k(chk.X, chk.y,
                      List([i \in 1..n |-> At2(resp_tr, i, k)]), self.alpha,
                      gmm.weights_[k], c)])
    IN  [X |-> chk.X, y |-> chk.y,
         t |-> t, d |-> d, resp_tr |-> resp_tr, labels_tr |-> argmax(resp_tr),
         reg_weights |->
            NdArray(<<t, d + 1, K>>,
                [p \in 1..(t * (d + 1) * K) |->
                    par[((p - 1) % K) + 1].reg_weights_k
                        [((p - 1) \div ((d + 1) * K)) + 1]
                        [(((p - 1) \div K) % (d + 1)) + 1]]),
         reg_precisions |->
            NdArray(<<t, K>>,
                [p \in 1..(t * K) |-> par[((p - 1) % K) + 1].reg_precisions_k]),
         gmm |-> gmm]

\* line 160
FitBegin(self) ==
    [self EXCEPT !.is_fitted_ = FALSE, !.attrs = @ \cup {"is_fitted_"}]

\* FitStore without the assignment of line 187
FitStore_keeps_old_gmm(self, loc) ==
    [self EXCEPT !.n_tasks_ = loc.t,
                 !.n_input_dims_ = loc.d,
                 !.resp_tr_ = loc.resp_tr,
                 !.labels_tr_ = loc.labels_tr,
                 !.reg_weights_ = squeeze(loc.reg_weights),
                 !.reg_precisions_ = squeeze(loc.reg_precisions),
                 !.is_fitted_ = TRUE,
                 !.attrs = @ \cup {"n_tasks_", "n_input_dims_", "resp_tr_", "labels_tr_",
                                   "reg_weights_", "reg_precisions_"}]

\* lines 181-188
FitStore(self, loc) ==
    [self EXCEPT !.n_tasks_ = loc.t,
                 !.n_input_dims_ = loc.d,
                 !.resp_tr_ = loc.resp_tr,
                 !.labels_tr_ = loc.labels_tr,
                 !.reg_weights_ = squeeze(loc.reg_weights),
                 !.reg_precisions_ = squeeze(loc.reg_precisions),
                 !.gmm_ = loc.gmm,
                 !.is_fitted_ = TRUE,
                 !.attrs = @ \cup {"n_tasks_", "n_input_dims_", "resp_tr_", "labels_tr_",
                                   "reg_weights_", "reg_precisions_", "gmm_"}]

\* fit(X, y).  em and c are the outcomes of EM and of the ridge solves; fault
\* is where an external collaborator raises, if it does.
fit(self, X, y, em, c, fault) ==
    LET s0 == FitBegin(self)
        chk == _check_data(X, y)
        loc == FitLocals(s0, chk, em, c)
    IN  IF chk.exc # ""
        THEN [self |-> s0, out |-> Raise(chk.exc), loc |-> NoLocals]
        ELSE IF chk.n < s0.n_components \/ fault = "gmm"
        THEN [self |-> s0, out |-> Raise("ValueError"), loc |-> NoLocals]
        ELSE IF fault = "solve"
        THEN [self |-> s0, out |-> Raise("LinAlgError"), loc |-> NoLocals]
        ELSE [self |-> FitStore(s0, loc), out |-> ReturnNone, loc |-> loc]

\* lines 190-215: everything predict does before it writes to self
PredictCompute(self, X) ==
    LET n == X.shape[1]
        d == X.shape[2]
        t == self.n_tasks_
        K == self.n_components
        reg_weights == IF t = 1 THEN newaxis0(self.reg_weights_) ELSE self.reg_weights_
        resp_tst == predict_proba(self.gmm_, X)
        targets ==
            NdArray(<<n, t>>,
                [p \in 1..(n * t) |->
                    LET i == ((p - 1) \div t) + 1
                        j == ((p - 1) % t) + 1
                    IN  SumTo([k \in 1..K |->
                            At2(resp_tst, i, k)
                              * (At3(reg_weights, j, 1, k)
                                  + SumTo([f \in 1..d |->
                                        At2(X, i, f) * At3(reg_weights, j, f + 1, k)], d))],
                          K)])
        nothing == [resp_tst |-> EmptyArray, labels_tst |-> <<>>, stores |-> FALSE]
    IN  IF "is_fitted_" \notin self.attrs
        THEN [out |-> Raise("AttributeError")] @@ nothing
        ELSE IF ~self.is_fitted_
        THEN [out |-> ReturnNone] @@ nothing
        ELSE IF d # self.n_input_dims_
        THEN [out |-> Raise("NameError")] @@ nothing
        ELSE IF t = 1 /\ ndim(self.reg_weights_) < 2
        THEN [out |-> Raise("IndexError")] @@ nothing
        ELSE IF ndim(reg_weights) # 3
        THEN [out |-> Raise("IndexError")] @@ nothing
        ELSE [out |-> ReturnArray(targets), resp_tst |-> resp_tst,
              labels_tst |-> argmax(resp_tst), stores |-> TRUE]

\* line 217
StoreResp(self, resp_tst) ==
    [self EXCEPT !.resp_tst_ = resp_tst, !.attrs = @ \cup {"resp_tst_"}]

\* StoreLabels that also keeps the expanded weights of line 202 on the instance
StoreLabels_keeps_expanded_weights(self, labels_tst) ==
    [self EXCEPT !.labels_tst_ = labels_tst, !.attrs = @ \cup {"labels_tst_"},
                 !.reg_weights_ = IF self.n_tasks_ = 1 THEN newaxis0(@) ELSE @]

\* line 218
StoreLabels(self, labels_tst) ==
    [self EXCEPT !.labels_tst_ = labels_tst, !.attrs = @ \cup {"labels_tst_"}]

predict(self, X) ==
    LET r == PredictCompute(self, X)
    IN  [self |-> IF r.stores
                  THEN StoreLabels(StoreResp(self, r.resp_tst), r.labels_tst)
                  ELSE self,
         out |-> r.out]

\* ------------------------------------------------- sklearn.metrics.r2_score
FracAdd(p, q) == Frac(p.num * q.den + q.num * p.den, p.den * q.den)

RECURSIVE FracSum(_, _)
FracSum(f, n) == IF n = 0 THEN Frac(0, 1) ELSE FracAdd(f[n], FracSum(f, n - 1))

\* uniform average over the tasks of 1 - SS_res / SS_tot; targets carry RespScale
r2_score(y, targets) ==
    LET n == y.shape[1]
        t == y.shape[2]
        ss_res == [j \in 1..t |->
            SumTo([i \in 1..n |->
                (RespScale * At2(y, i, j) - At2(targets, i, j))
                    * (RespScale * At2(y, i, j) - At2(targets, i, j))], n)]
        sum_y == [j \in 1..t |-> SumTo([i \in 1..n |-> At2(y, i, j)], n)]
        sum_yy == [j \in 1..t |-> SumTo([i \in 1..n |-> At2(y, i, j) * At2(y, i, j)], n)]
        ss_tot == [j \in 1..t |-> RespScale * RespScale * (n * sum_yy[j] - sum_y[j] * sum_y[j])]
        total == FracSum([j \in 1..t |-> Frac(ss_tot[j] - n * ss_res[j], ss_tot[j])], t)
    IN  Frac(total.num, total.den * t)

\* lines 222-225
score(self, X, y) ==
    LET p == predict(self, X)
        y2 == IF ndim(y) = 1 THEN NdArray(<<y.shape[1], 1>>, y.a) ELSE y
    IN  [self |-> p.self,
         out |-> IF p.out.kind = "raise" THEN p.out
                 ELSE IF p.out.kind = "None" THEN Raise("TypeError")
                 ELSE IF y2.shape # p.out.val.shape THEN Raise("ValueError")
                 ELSE ReturnFloat(r2_score(y2, p.out.val))]

\* the attributes predict reads: the FittedModelState of the instance
FittedNames ==
    {"is_fitted_", "n_tasks_", "n_input_dims_", "reg_weights_", "reg_precisions_", "gmm_"}

FittedState(self) ==
    [attrs |-> self.attrs \cap FittedNames, n_components |-> self.n_components,
     is_fitted_ |-> self.is_fitted_, n_tasks_ |-> self.n_tasks_,
     n_input_dims_ |-> self.n_input_dims_, reg_weights_ |-> self.reg_weights_,
     reg_precisions_ |-> self.reg_precisions_, gmm_ |-> self.gmm_]

\* ------------------------------------------------------------------ state
VARIABLES
    est,        \* the GMMRegressor instance
    last,       \* the latest finished call on it: operation, arguments, outcome
    committed,  \* the locals of the latest fit call that ran to its end
    snap,       \* the fitted state as the latest fit call left it
    thr         \* the predict call each concurrent caller is in

vars == <<est, last, committed, snap, thr>>

\* a finished call: its operation, the X it was given, the sample counts of its
\* X and y, and its outcome
Call(op, X, y, out) ==
    [op |-> op, X |-> IF op = "predict" THEN X ELSE EmptyArray,
     n_x |-> X.shape[1], n_y |-> y.shape[1], out |-> out]

Idle == [pc |-> "idle", X |-> EmptyArray, resp_tst |-> EmptyArray,
         labels_tst |-> <<>>, out |-> ReturnNone, called |-> FALSE]

\* the constructor's defaults for alpha, n_init, verbose and random_state
Configurations ==
    {__init__(1, 1, 10, "diag", 0, None), __init__(2, 1, 10, "full", 0, None),
     __init__(2, 1, 10, "tied", 0, None), __init__(1, 1, 10, "spherical", 0, None)}

Init ==
    /\ est \in Configurations
    /\ last = Call("__init__", EmptyArray, EmptyArray, ReturnNone)
    /\ committed = NoLocals
    /\ snap = FittedState(est)
    /\ thr = [c \in Callers |-> Idle]

Quiescent == \A c \in Callers : thr[c].pc = "idle"

\* the outcomes the collaborators of one fit call can have
FitChoices(X, y) ==
    LET K == est.n_components
        runs == X.shape[1] = y.shape[1] /\ X.shape[1] >= K
    IN  IF runs
        THEN {[em |-> em, c |-> c, fault |-> "none"] : em \in EMOutcomes(K), c \in CoefVals}
                \cup {[em |-> <<>>, c |-> 0, fault |-> f] : f \in {"gmm", "solve"}}
        ELSE {[em |-> <<>>, c |-> 0, fault |-> "none"]}

Fit ==
    /\ Quiescent
    /\ \E X \in XInputs, y \in YInputs :
         \E ch \in FitChoices(X, y) :
            \E r \in {fit(est, X, y, ch.em, ch.c, ch.fault)} :
                /\ est' = r.self
                /\ last' = Call("fit", X, y, r.out)
                /\ committed' = IF r.out.kind = "raise" THEN committed ELSE r.loc
                /\ snap' = FittedState(r.self)
                /\ thr' = [c \in Callers |-> Idle]

Predict ==
    /\ Quiescent
    /\ \E X \in XInputs :
         \E r \in {predict(est, X)} :
             /\ est' = r.self
             /\ last' = Call("predict", X, EmptyArray, r.out)
             /\ UNCHANGED <<committed, snap, thr>>

Score ==
    /\ Quiescent
    /\ \E X \in XInputs, y \in YInputs :
         \E r \in {score(est, X, y)} :
             /\ est' = r.self
             /\ last' = Call("score", X, y, r.out)
             /\ UNCHANGED <<committed, snap, thr>>

Next == Fit \/ Predict \/ Score

Spec == Init /\ [][Next]_vars

\* ------------------------------------------------- concurrent predict calls
\* Each caller runs predict in three steps: lines 191-215 (reads of self and
\* local work), the store of line 217, the store of line 218 and the return.
\* The instance is trained before it is shared: fit runs while no predict call
\* is in progress and until one fit has succeeded.
Train == ~(est.is_fitted_) /\ Fit

PredictEnter(c) ==
    /\ thr[c].pc = "idle"
    /\ \E X \in XInputs :
         \E r \in {PredictCompute(est, X)} :
             thr' = [thr EXCEPT ![c] =
                        [pc |-> IF r.stores THEN "store_resp" ELSE "idle",
                         X |-> X, resp_tst |-> r.resp_tst, labels_tst |-> r.labels_tst,
                         out |-> r.out, called |-> TRUE]]
    /\ UNCHANGED <<est, last, committed, snap>>

PredictStoreResp(c) ==
    /\ thr[c].pc = "store_resp"
    /\ est' = StoreResp(est, thr[c].resp_tst)
    /\ thr' = [thr EXCEPT ![c].pc = "store_labels"]
    /\ UNCHANGED <<last, committed, snap>>

PredictStoreLabels(c) ==
    /\ thr[c].pc = "store_labels"
    /\ est' = StoreLabels(est, thr[c].labels_tst)
    /\ thr' = [thr EXCEPT ![c].pc = "idle"]
    /\ UNCHANGED <<last, committed, snap>>

NextConc ==
    \/ Train
    \/ \E c \in Callers : PredictEnter(c)
    \/ \E c \in Callers : PredictStoreResp(c)
    \/ \E c \in Callers : PredictStoreLabels(c)

SpecConc == Init /\ [][NextConc]_vars

\* ================================================================ claims
Fitted == "is_fitted_" \in est.attrs /\ est.is_fitted_

\* C1: while no fit has completed, predict(X) and score(X, y) fail with
\* NotFittedError: they neither return nor fail with another error.
C1_UnfittedCallsRaiseNotFitted ==
    (last.op \in {"predict", "score"} /\ ~Fitted) => last.out = Raise("NotFittedError")

\* C2: a fit that fails on a Fitted estimator leaves it Fitted, with the fitted
\* state it had before the call.
C2_FailedFitKeepsFittedModel ==
    [][(Fitted /\ last'.op = "fit" /\ last'.out.kind = "raise")
          => FittedState(est') = FittedState(est)]_vars

\* C3: after a successful fit, predict(X2) with the fitted number of features
\* returns an m-by-t matrix, or a length-m vector when t = 1, and never raises.
C3_FitThenPredictReturnsTargets ==
    (last.op = "predict" /\ Fitted /\ last.X.shape[2] = est.n_input_dims_)
        => /\ last.out.kind = "ndarray"
           /\ last.out.val.shape =
                IF est.n_tasks_ = 1 THEN <<last.X.shape[1]>>
                ELSE <<last.X.shape[1], est.n_tasks_>>

\* C4: on a Fitted estimator, predict(X) with a number of features other than
\* n_input_dims_ fails with ShapeMismatchError and leaves the fitted state as it was.
C4_WrongDimsRaiseShapeMismatch ==
    (last.op = "predict" /\ Fitted /\ last.X.shape[2] # est.n_input_dims_)
        => (last.out = Raise("ShapeMismatchError") /\ FittedState(est) = snap)

\* C5: fit(X, y) with different sample counts in X and y fails with
\* ShapeMismatchError.
C5_SampleCountMismatchRaisesShapeMismatch ==
    (last.op = "fit" /\ last.n_x # last.n_y) => last.out = Raise("ShapeMismatchError")

\* C6 as stated: a predict call on a Fitted estimator leaves every attribute of
\* the instance unchanged.
C6_PredictLeavesInstanceUnchanged ==
    [][(Fitted /\ last'.op = "predict") => est' = est]_vars

\* C6 as amended: a predict call leaves the fitted state and the configuration
\* unchanged and writes at most the cached resp_tst_ and labels_tst_; and every
\* predict call has the outcome that the state left by the latest fit and its X
\* determine, so that two calls with the same X and no fit in between agree.
C6_PredictLeavesFittedStateUnchanged ==
    /\ [][(last'.op = "predict")
            => /\ FittedState(est') = FittedState(est)
               /\ est' = [est EXCEPT !.resp_tst_ = est'.resp_tst_,
                                     !.labels_tst_ = est'.labels_tst_,
                                     !.attrs = @ \cup (est'.attrs \cap {"resp_tst_", "labels_tst_"})]]_vars
    /\ [](last.op = "predict" => last.out = PredictCompute(snap, last.X).out)

\* C6 witness: a predict call on a Fitted estimator returned targets and cached
\* its responsibilities and labels.
C6_Witness ==
    /\ Fitted
    /\ last.op = "predict"
    /\ last.out.kind = "ndarray"
    /\ {"resp_tst_", "labels_tst_"} \subseteq est.attrs
    /\ est.resp_tst_ = predict_proba(est.gmm_, last.X)

\* C7: with concurrent predict calls and no fit in progress, every call returns
\* what it would return alone, and once the calls are over the instance holds no
\* responsibilities of one call paired with the labels of another.
C7_ConcurrentPredictsAreConsistent ==
    /\ \A c \in Callers :
          (thr[c].called /\ thr[c].pc = "idle")
              => thr[c].out = PredictCompute(snap, thr[c].X).out
    /\ (Quiescent /\ "labels_tst_" \in est.attrs)
          => est.labels_tst_ = argmax(est.resp_tst_)

\* C8: the density model of a Fitted estimator was created with the estimator's
\* n_components, n_init, random seed and covariance structure.
C8_DensityModelUsesConfiguration ==
    Fitted => /\ est.gmm_.n_components = est.n_components
              /\ est.gmm_.n_init = est.n_init
              /\ est.gmm_.random_state = est.random_state
              /\ est.gmm_.covariance_type = est.covariance_type

\* C9: the fitted attributes of the instance are at all times the ones computed
\* by the latest fit call that ran to its end, with weights for all K
\* components: no call leaves some of them from a failed or from another fit.
\* A Fitted estimator has them all, and only a Fitted estimator returns
\* predictions.
C9_FittedStateFromOneFit ==
    /\ (est.attrs \cap FittedNames) \in {{}, {"is_fitted_"}, FittedNames}
    /\ Fitted => FittedNames \subseteq est.attrs
    /\ "gmm_" \in est.attrs =>
          /\ est.gmm_ = committed.gmm
          /\ committed.reg_weights.shape =
                <<committed.t, committed.d + 1, est.n_components>>
          /\ est.reg_weights_ = squeeze(committed.reg_weights)
          /\ est.reg_precisions_ = squeeze(committed.reg_precisions)
          /\ est.n_tasks_ = committed.t
          /\ est.n_input_dims_ = committed.d
          /\ est.resp_tr_ = committed.resp_tr
          /\ est.labels_tr_ = committed.labels_tr
    /\ (last.op = "predict" /\ last.out.kind = "ndarray") => Fitted

\* C9 witness: a regression solve failed in a fit call on an estimator that
\* holds the model of an earlier fit.
C9_Witness ==
    /\ last.op = "fit"
    /\ last.out = Raise("LinAlgError")
    /\ "gmm_" \in est.attrs
    /\ ~Fitted

\* the precision of task j under component k from that task's residuals only
TaskPrecision(loc, j, k) ==
    LET n == loc.X.shape[1]
        w == loc.gmm.weights_[k]
        e == [i \in 1..n |->
                At2(loc.y, i, j)
                  - (At3(loc.reg_weights, j, 1, k)
                       + SumTo([f \in 1..loc.d |->
                            At2(loc.X, i, f) * At3(loc.reg_weights, j, f + 1, k)], loc.d))]
    IN  Frac(n * w.num * RespScale,
             w.den * SumTo([i \in 1..n |-> At2(loc.resp_tr, i, k) * e[i] * e[i]], n))

\* C10: the precision stored for task j and component k is
\* n * prior_k / sum_i(responsibility[i, k] * e[i, j]^2), from task j's residuals only.
C10_PrecisionPerTask ==
    Fitted =>
        \A j \in 1..est.n_tasks_, k \in 1..est.n_components :
            FracEq(est.reg_precisions_.a[(j - 1) * est.n_components + k],
                   TaskPrecision(committed, j, k))

====
